---------------------------- MODULE Spec2Model ----------------------------
(***************************************************************************)
(* A model of azurity/xmodem-go (src/port.go): the XMODEM/YMODEM protocol  *)
(* engine (sender and receiver) and the stream splitter of NewModem.       *)
(*                                                                         *)
(* Bytes are integers 0..255.  The two payload sizes of the protocol, 128  *)
(* and 1024 bytes, are scaled down to SizeSOH and Size1K; every buffer     *)
(* size of the code that is derived from them (the pumps' 1024 byte chunk  *)
(* buffer, the receiver's bn) is derived from them here in the same way.   *)
(***************************************************************************)
EXTENDS Integers, Sequences, FiniteSets, TLC

(***************************************************************************)
(* Bounds of the model.                                                    *)
(***************************************************************************)
\* stands for the 128 byte payload of an SOH packet
SizeSOH == 12
\* stands for the 1024 byte payload of an STX packet
Size1K == 20
\* longest file body sent in the round-trip specification
MaxBody == 20
\* bytes other than NAK the scripted peer of SpecSend may inject
MaxPeerBytes == 2
\* transfer calls made on the modem of SpecSplit
MaxCalls == 2
\* bytes the host may write to the terminal writer in SpecSplit
MaxSplitBytes == 2
\* bytes the peer may write to the transport in SpecSplit
MaxSplitPeer == 1

(***************************************************************************)
(* Control bytes, src/port.go:156-166.                                     *)
(***************************************************************************)
charSOH == 1
charSTX == 2
charEOT == 4
charACK == 6
charNAK == 21
charCAN == 24
charSUB == 26
charCRC == 67
charG == 71

\* ASCII codes used by fmt.Sprintf / fmt.Sscanf in the file info packet
chSpace == 32
chZero == 48

(***************************************************************************)
(* Feature bits, src/port.go:33-43.                                        *)
(***************************************************************************)
ModemFn1k == 1
ModemFnCRC == 2
ModemFnCANCAN == 4
ModemFnBatch == 8
ModemFnG == 16

RECURSIVE BitAnd(_, _)
BitAnd(a, b) ==
    IF a = 0 \/ b = 0 THEN 0
    ELSE (IF a % 2 = 1 /\ b % 2 = 1 THEN 1 ELSE 0) + 2 * BitAnd(a \div 2, b \div 2)

RECURSIVE BitOr(_, _)
BitOr(a, b) ==
    IF a = 0 THEN b
    ELSE IF b = 0 THEN a
    ELSE (IF a % 2 = 1 \/ b % 2 = 1 THEN 1 ELSE 0) + 2 * BitOr(a \div 2, b \div 2)

RECURSIVE BitXor(_, _)
BitXor(a, b) ==
    IF a = 0 THEN b
    ELSE IF b = 0 THEN a
    ELSE ((a + b) % 2) + 2 * BitXor(a \div 2, b \div 2)

ModemXMin == 0
ModemXMax == BitOr(ModemXMin, BitOr(ModemFn1k, BitOr(ModemFnCRC, ModemFnCANCAN)))
ModemYMin == BitOr(ModemXMax, ModemFnBatch)
ModemYMax == BitOr(ModemYMin, ModemFnG)

XModemConfig(fn) == [mode |-> "XModem", fn |-> BitOr(BitAnd(fn, ModemXMax), ModemXMin)]

YModemConfig(fn) == [mode |-> "YModem", fn |-> BitOr(BitAnd(fn, ModemYMax), ModemYMin)]

\* m.Config.fn&f != 0
HasFn(cfg, f) == BitAnd(cfg.fn, f) # 0

(***************************************************************************)
(* Sequence helpers.                                                       *)
(***************************************************************************)
Min(a, b) == IF a < b THEN a ELSE b

Take(s, n) == SubSeq(s, 1, Min(n, Len(s)))

Drop(s, n) == SubSeq(s, Min(n, Len(s)) + 1, Len(s))

\* make([]byte, n): n zero bytes
Zeros(n) == [i \in 1..n |-> 0]

Fill(n, b) == [i \in 1..n |-> b]

(***************************************************************************)
(* Frame codec, src/port.go:168-189.                                       *)
(***************************************************************************)
RECURSIVE SumBytes(_, _)
SumBytes(data, i) ==
    IF i > Len(data) THEN 0 ELSE (data[i] + SumBytes(data, i + 1)) % 256

\* checksum: the 8 bit wrapping sum, one byte
checksum(data) == << SumBytes(data, 1) >>

\* the inner loop of crc16: k shifts of the 16 bit register (the IF on the
\* LET value makes TLC evaluate it before the recursive call)
RECURSIVE crcShift(_, _)
crcShift(crc, k) ==
    IF k = 0 THEN crc
    ELSE LET next == IF BitAnd(crc, 32768) # 0
                     THEN BitXor((crc * 2) % 65536, 4129)
                     ELSE (crc * 2) % 65536
         IN  IF next >= 0 THEN crcShift(next, k - 1) ELSE 0

RECURSIVE crcFold(_, _, _)
crcFold(data, i, crc) ==
    IF i > Len(data) THEN crc
    ELSE LET next == crcShift(BitXor(crc, data[i] * 256), 8)
         IN  IF next >= 0 THEN crcFold(data, i + 1, next) ELSE 0

\* crc16: CRC-16/XMODEM, returned high byte first
crc16(data) ==
    LET crc == crcFold(data, 1, 0)
    IN  << crc \div 256, crc % 256 >>

\* the packet sendPack builds from (index, data, mode), src/port.go:209-218
Frame(index, data, mode) ==
    LET header == IF Len(data) = Size1K THEN charSTX ELSE charSOH
        buf == << header, index, BitXor(index, 255) >> \o data
    IN  IF mode = charCRC \/ mode = charG
        THEN buf \o crc16(data)
        ELSE buf \o checksum(data)

(***************************************************************************)
(* The YMODEM file info packet: fmt.Sprintf("%d %o %o") in sendList and    *)
(* bytes.Buffer.ReadBytes / fmt.Sscanf("%d%o%o") in parseFileInfo.         *)
(***************************************************************************)
fsModePerm == 511

\* strconv formatting of a number n >= 0 in the given base, as ASCII codes
RECURSIVE Digits(_, _)
Digits(n, base) ==
    IF n < base THEN << chZero + n >>
    ELSE Append(Digits(n \div base, base), chZero + (n % base))

\* info of sendList, src/port.go:351-353
FileInfo(file) ==
    file.Path \o << 0 >>
        \o Digits(file.Length, 10) \o << chSpace >>
        \o Digits(file.ModTime, 8) \o << chSpace >>
        \o Digits(BitAnd(file.Mode, fsModePerm), 8)
        \o << 0 >>

\* tooLong of sendList, src/port.go:355-361
InfoTooLong(cfg, info) ==
    \/ Len(info) > SizeSOH /\ ~HasFn(cfg, ModemFn1k)
    \/ Len(info) > Size1K

\* the payload of packet 0, src/port.go:362-370: append(info, make([]byte, 0, k)...)
\* appends the zero bytes of a slice of length 0, that is nothing
InfoPayload(cfg, info) ==
    LET cut == IF InfoTooLong(cfg, info) THEN << >> ELSE info
    IN  IF Len(cut) <= SizeSOH
        THEN cut \o Zeros(0)
        ELSE cut \o Zeros(0)

\* the payload of the packet that ends a batch, src/port.go:389: make([]byte, 0, 128)
LastPayload == Zeros(0)

IsSpace(c) == c = chSpace \/ c = 9

IsDigit(c, base) == c >= chZero /\ c < chZero + base

\* fmt's SkipSpace: the first position >= i of s that holds no space
RECURSIVE SkipSpace(_, _)
SkipSpace(s, i) ==
    IF i <= Len(s) /\ IsSpace(s[i]) THEN SkipSpace(s, i + 1) ELSE i

\* fmt's scanNumber: the position after the run of digits that starts at i
RECURSIVE DigitsEnd(_, _, _)
DigitsEnd(s, i, base) ==
    IF i <= Len(s) /\ IsDigit(s[i], base) THEN DigitsEnd(s, i + 1, base) ELSE i

\* strconv.ParseInt of s[i..j-1] in the given base
RECURSIVE ParseDigits(_, _, _, _)
ParseDigits(s, i, j, base) ==
    IF j <= i THEN 0
    ELSE ParseDigits(s, i, j - 1, base) * base + (s[j - 1] - chZero)

\* one verb of Sscanf (%d: base 10, %o: base 8) at position i of s: skips
\* spaces, then takes the longest run of digits; no digit is an error
ScanInt(s, i, base) ==
    LET from == SkipSpace(s, i)
        to == DigitsEnd(s, from, base)
    IN  [ok |-> to > from, val |-> ParseDigits(s, from, to, base), next |-> to]

\* the position of the first NUL of buf, 0 when there is none
RECURSIVE IndexNUL(_, _)
IndexNUL(buf, i) ==
    IF i > Len(buf) THEN 0
    ELSE IF buf[i] = 0 THEN i ELSE IndexNUL(buf, i + 1)

\* parseFileInfo, src/port.go:530-550.  err is "none", "EOF" (ReadBytes found
\* no NUL) or "panic" (buf[len(line)+1:] is out of range).  ReadBytes returns
\* the line with its delimiter; Sscanf stores each value as it scans it, so
\* Length keeps the first number even when a later verb fails.
parseFileInfo(buf) ==
    LET nul == IndexNUL(buf, 1)
        line == SubSeq(buf, 1, nul)
        rest == SubSeq(buf, Len(line) + 2, Len(buf))
        len == ScanInt(rest, 1, 10)
        mt == ScanInt(rest, len.next, 8)
        md == ScanInt(rest, mt.next, 8)
        scanned == len.ok /\ mt.ok /\ md.ok
    IN  IF nul = 0 THEN [err |-> "EOF"]
        ELSE IF Len(line) + 1 > Len(buf) THEN [err |-> "panic"]
        ELSE [err |-> "none",
              Path |-> line,
              Length |-> IF len.ok THEN len.val ELSE 0,
              ModTime |-> IF scanned THEN mt.val ELSE 0,
              Mode |-> IF scanned THEN BitAnd(md.val, fsModePerm) ELSE fsModePerm]

(***************************************************************************)
(* State.  A modem is an endpoint: "S" is the modem that sends, "R" the    *)
(* modem that receives.                                                    *)
(***************************************************************************)
VARIABLES
    transport,   \* [side -> bytes]: written to the side's transport reader, not yet read by its inbound pump
    rd,          \* [side -> [pipe, buf, last]]: the pipe mrw/mrr and the bufio.Reader modemR
    modemState,  \* [side -> 0 | 1]: *modemState
    termR,       \* [side -> entries]: what was written to rw, the terminal reader's pipe
    snd,         \* the sending call: SendBytes or SendList, and the locals of the functions it is in
    rcv,         \* the receiving call: Receive, and the locals of the functions it is in
    sink,        \* the files handed to the Receiver callback, each with the body bytes delivered so far
    wlog,        \* history: every Write to the writer of modem "S", in order
    hist,        \* history: writes and replies of the packet the sender is on, and of the one before
    inPump,      \* the inbound pump goroutine of modem "S": [pc, buf]
    outPump,     \* the outbound pump goroutine of modem "S": [pc, buf, cache]
    finishChan,  \* number of values in finishChan (capacity 1)
    wpipe,       \* the pending Write on the terminal writer's pipe ww
    discards,    \* the sizes of the pending modemR.Read goroutines of lines 98-100 and 122-124
    env          \* counters of the environment: calls made, bytes injected, finish signals sent and handled

vars == << transport, rd, modemState, termR, snd, rcv, sink, wlog, hist,
           inPump, outPump, finishChan, wpipe, discards, env >>

engineVars == << transport, rd, modemState, termR, snd, rcv, sink, wlog, hist >>

splitVars == << inPump, outPump, finishChan, wpipe, discards >>

Sides == {"S", "R"}

Peer(side) == IF side = "S" THEN "R" ELSE "S"

\* make([]byte, 1024) of both pumps, src/port.go:88 and 114
PumpBuf == Size1K

(***************************************************************************)
(* The bufio.Reader modemR over the pipe mrr.  pipe is the chunk the       *)
(* inbound pump is writing with mrw.Write (the write ends when the chunk   *)
(* is taken), buf the unread part of the buffer, last is lastByte.  The    *)
(* buffer of 4096 bytes holds any chunk of a pump (at most 1024 bytes).    *)
(* closed is "no", or how the inbound pump closed mrw: "err" after         *)
(* CloseWithError (src/port.go:92), "eof" after Close (src/port.go:107).   *)
(***************************************************************************)
RdEmpty == [pipe |-> << >>, buf |-> << >>, last |-> -1, closed |-> "no"]

\* a Read or Peek returns without blocking
RdAvail(r) == r.buf # << >> \/ r.pipe # << >>

\* with an empty buffer, one Read of the pipe
RdFill(r) == IF r.buf = << >> THEN [r EXCEPT !.buf = r.pipe, !.pipe = << >>] ELSE r

\* bufio.Reader.Read(p) with len(p) = n: copies what the buffer holds, at
\* most n bytes, and does not wait for more
RdData(r, n) == Take(RdFill(r).buf, n)

RdAfter(r, n) ==
    LET f == RdFill(r)
        got == Take(f.buf, n)
    IN  [f EXCEPT !.buf = Drop(f.buf, n), !.last = got[Len(got)]]

\* bufio.Reader.Peek(1)
RdPeek(r) == [RdFill(r) EXCEPT !.last = -1]

\* bufio.Reader.UnreadByte(): fails (and is ignored) unless the last
\* operation was a Read; else the last byte read is the next byte again
RdUnread(r) ==
    IF r.last < 0 THEN r
    ELSE [r EXCEPT !.buf = << r.last >> \o r.buf, !.last = -1]

\* m.transportW.Write(bytes) of modem side: the bytes are in flight to the peer
Written(side, bytes) == [transport EXCEPT ![Peer(side)] = @ \o bytes]

\* an entry of termR written by the engine's m.termR.Write(rBuf[:1])
Forwarded(side, b, at) ==
    [termR EXCEPT ![side] = Append(@, [b |-> b, via |-> "engine", at |-> at, st |-> modemState[side]])]

\* an entry of wlog for a Write of the engine of modem "S"
EngineWrite(kind, bytes) ==
    [src |-> "engine", kind |-> kind, bytes |-> bytes, mode |-> snd.mode,
     stage |-> snd.stage, ctx |-> snd.ctx, xfer |-> env.calls, act |-> TRUE,
     done |-> env.handled]

(***************************************************************************)
(* The inbound pump while modemState = 1, src/port.go:90 and 103: a chunk  *)
(* of at most 1024 bytes goes from the transport to the pipe of modemR.    *)
(***************************************************************************)
PumpActive(side) ==
    /\ modemState[side] = 1
    /\ rd[side].pipe = << >>
    /\ transport[side] # << >>
    /\ rd' = [rd EXCEPT ![side].pipe = Take(transport[side], PumpBuf)]
    /\ transport' = [transport EXCEPT ![side] = Drop(@, PumpBuf)]
    /\ UNCHANGED << modemState, termR, snd, rcv, sink, wlog, hist, splitVars, env >>

(***************************************************************************)
(* The sender: SendBytes / SendList and the functions they call.  snd.pc   *)
(* is the place the call is at; an action is the code from one blocking    *)
(* read or one Write to the next.                                          *)
(***************************************************************************)
HistNew == [writes |-> 0, naks |-> 0, other |-> FALSE]

\* sendPack entered (count := 0, can := 0), src/port.go:208-221
sendPackStart(s, index, data, stage) ==
    [s EXCEPT !.pack = Frame(index, data, s.mode), !.stage = stage,
              !.count = 0, !.can = 0, !.pc = "write"]

\* sendEOT entered, src/port.go:253-256
sendEOTStart(s, ctx) ==
    [s EXCEPT !.ctx = ctx, !.count = 0, !.can = 0, !.pc = "eotwrite"]

\* sendBuffer entered, src/port.go:392-398
sendBufferStart(s, body, maxsize) ==
    [s EXCEPT !.body = body, !.maxsize = maxsize, !.total = 0, !.index = 1,
              !.stage = "data", !.pc = "fill"]

\* sendBytes / sendList returns err ("none" for nil) to SendBytes / SendList
sendReturn(s, err) == [s EXCEPT !.err = err, !.pc = "end"]

\* sendList at the head of its loop over the files, or after it, src/port.go:345-346 and 385
sendListNext(s) ==
    [s EXCEPT !.stage = IF s.files = << >> THEN "last" ELSE "info", !.pc = "waitmode"]

\* SendBytes / SendList up to the first read of waitWorkMode, src/port.go:295-298,
\* 325-328 and 339-346
S_Begin ==
    /\ snd.pc = "idle"
    /\ modemState' = [modemState EXCEPT !["S"] = 1]
    /\ rd' = [rd EXCEPT !["S"] = RdUnread(@)]
    /\ snd' = IF snd.kind = "SendBytes"
              THEN [snd EXCEPT !.stage = "body", !.pc = "waitmode"]
              ELSE IF snd.cfg.mode = "XModem"
                      \/ (snd.cfg.mode = "YModem" /\ ~HasFn(snd.cfg, ModemFnBatch))
                   THEN sendReturn(snd, "WrongModemType")
                   ELSE sendListNext(snd)
    /\ UNCHANGED << transport, termR, rcv, sink, wlog, hist, splitVars, env >>

\* the byte waitWorkMode takes as the work mode, src/port.go:199
modeAccepted(cfg, b) ==
    \/ b = charNAK
    \/ (HasFn(cfg, ModemFnCRC) /\ b = charCRC)
    \/ (HasFn(cfg, ModemFnG) /\ b = charG)

\* after waitWorkMode returned workMode: sendBytes goes into sendBuffer
\* (src/port.go:313), sendList builds and sends packet 0 (src/port.go:350-372)
\* or the packet that ends the batch (src/port.go:389)
afterWorkMode(s) ==
    IF s.stage = "body" THEN sendBufferStart(s, s.body, 0)
    ELSE IF s.stage = "info"
         THEN LET info == FileInfo(Head(s.files))
              IN  sendPackStart([s EXCEPT !.tooLong = InfoTooLong(s.cfg, info)],
                                0, InfoPayload(s.cfg, info), "info")
         ELSE sendPackStart(s, 0, LastPayload, "last")

\* one round of the loop of waitWorkMode, src/port.go:193-204
S_WaitMode ==
    /\ snd.pc = "waitmode"
    /\ RdAvail(rd["S"])
    /\ LET b == RdData(rd["S"], 1)[1]
       IN  /\ rd' = [rd EXCEPT !["S"] = RdAfter(@, 1)]
           /\ IF modeAccepted(snd.cfg, b)
              THEN /\ snd' = afterWorkMode([snd EXCEPT !.mode = b])
                   /\ hist' = [hist EXCEPT !.cur = HistNew]
                   /\ termR' = termR
              ELSE /\ termR' = Forwarded("S", b, "mode")
                   /\ UNCHANGED << snd, hist >>
    /\ UNCHANGED << transport, modemState, rcv, sink, wlog, splitVars, env >>

\* a last packet that is never cut down to SizeSOH bytes
packetLenFull(fin, n, size) == size

\* len(buf) when the packet is sent: buf = buf[:128] for a last packet of at
\* most 128 bytes, src/port.go:412-416
packetLen(fin, n, size) == IF fin /\ n <= SizeSOH THEN SizeSOH ELSE size

\* one round of the loop of sendBuffer up to its sendPack, src/port.go:400-421
S_Fill ==
    /\ snd.pc = "fill"
    /\ LET size == IF HasFn(snd.cfg, ModemFn1k) THEN Size1K ELSE SizeSOH
           n == Min(size, Len(snd.body))
           fin == n < size
           len == packetLen(fin, n, size)
           buf == Take(snd.body, n) \o (IF fin THEN Fill(len - n, charSUB) ELSE << >>)
           total == snd.total + n
       IN  snd' = IF n = 0 THEN sendEOTStart(snd, "file")
                  ELSE IF snd.maxsize > 0 /\ total > snd.maxsize
                       THEN sendReturn([snd EXCEPT !.total = total, !.body = Drop(@, n)],
                                     "FileTooLong")
                       ELSE sendPackStart([snd EXCEPT !.total = total, !.fin = fin,
                                                      !.body = Drop(@, n)],
                                          snd.index % 256, buf, "data")
    /\ hist' = [hist EXCEPT !.cur = HistNew]
    /\ UNCHANGED << transport, rd, modemState, termR, rcv, sink, wlog, splitVars, env >>

\* sendPack returned nil: sendList after packet 0 (src/port.go:373-380), the
\* loop of sendBuffer (src/port.go:422-428), sendList after its last packet
afterPack(s) ==
    IF s.stage = "info"
    THEN IF s.tooLong THEN sendReturn(s, "TooLongFileInfo")
         ELSE sendBufferStart(s, Head(s.files).Body, Head(s.files).Length)
    ELSE IF s.stage = "data"
         THEN IF s.fin THEN sendEOTStart([s EXCEPT !.index = @ + 1], "file")
              ELSE [s EXCEPT !.index = @ + 1, !.pc = "fill"]
         ELSE sendReturn(s, "none")

\* m.transportW.Write(buf) of sendPack, and in G mode its return, src/port.go:223-226
S_Write ==
    /\ snd.pc = "write"
    /\ transport' = Written("S", snd.pack)
    /\ wlog' = Append(wlog, EngineWrite("pack", snd.pack))
    /\ hist' = [hist EXCEPT !.cur.writes = @ + 1]
    /\ snd' = IF snd.mode = charG THEN afterPack(snd) ELSE [snd EXCEPT !.pc = "reply"]
    /\ UNCHANGED << rd, modemState, termR, rcv, sink, splitVars, env >>

\* replyTo with the bound on the NAKs of one packet off by one
replyToLate(s, b) ==
    IF b = charCAN
    THEN [count |-> s.count, can |-> s.can + 1, fwd |-> FALSE,
          res |-> IF s.can + 1 >= 2 THEN "IOCan" ELSE "again"]
    ELSE IF b = charACK
         THEN [count |-> s.count, can |-> 0, fwd |-> FALSE, res |-> "ack"]
         ELSE IF b = charNAK
              THEN [count |-> s.count + 1, can |-> 0, fwd |-> FALSE,
                    res |-> IF s.count + 1 > 10 THEN "NAKTenTimes" ELSE "again"]
              ELSE [count |-> s.count, can |-> 0, fwd |-> TRUE, res |-> "again"]

\* the reply byte b in the loop of sendPack (src/port.go:231-248) and of
\* sendEOT (src/port.go:263-280): the counters, and res: "ack" (break),
\* "again" (next round: write again), or the error returned
replyTo(s, b) ==
    IF b = charCAN
    THEN [count |-> s.count, can |-> s.can + 1, fwd |-> FALSE,
          res |-> IF s.can + 1 >= 2 THEN "IOCan" ELSE "again"]
    ELSE IF b = charACK
         THEN [count |-> s.count, can |-> 0, fwd |-> FALSE, res |-> "ack"]
         ELSE IF b = charNAK
              THEN [count |-> s.count + 1, can |-> 0, fwd |-> FALSE,
                    res |-> IF s.count + 1 >= 10 THEN "NAKTenTimes" ELSE "again"]
              ELSE [count |-> s.count, can |-> 0, fwd |-> TRUE, res |-> "again"]

\* history of the replies to the packet (or EOT) the sender is on; when the
\* loop ends, last keeps them with how it ended and where the call went then
histReply(b, res, then) ==
    LET cur == [hist.cur EXCEPT !.naks = IF b = charNAK THEN @ + 1 ELSE @,
                                !.other = @ \/ (b # charNAK /\ b # charACK)]
    IN  IF res = "again" THEN [hist EXCEPT !.cur = cur]
        ELSE [hist EXCEPT !.cur = HistNew,
                          !.last = [writes |-> cur.writes, naks |-> cur.naks,
                                    other |-> cur.other, end |-> res, then |-> then]]

\* the read of sendPack and what follows it, src/port.go:227-250
S_Reply ==
    /\ snd.pc = "reply"
    /\ RdAvail(rd["S"])
    /\ LET b == RdData(rd["S"], 1)[1]
           r == replyTo(snd, b)
           s == [snd EXCEPT !.count = r.count, !.can = r.can]
           t == IF r.res = "ack" THEN afterPack(s)
                ELSE IF r.res = "again" THEN [s EXCEPT !.pc = "write"]
                ELSE sendReturn(s, r.res)
       IN  /\ rd' = [rd EXCEPT !["S"] = RdAfter(@, 1)]
           /\ termR' = IF r.fwd THEN Forwarded("S", b, "reply") ELSE termR
           /\ hist' = histReply(b, r.res, t.pc)
           /\ snd' = t
    /\ UNCHANGED << transport, modemState, rcv, sink, wlog, splitVars, env >>

\* m.transportW.Write([]byte{charEOT}) of sendEOT, src/port.go:258
S_WriteEOT ==
    /\ snd.pc = "eotwrite"
    /\ transport' = Written("S", << charEOT >>)
    /\ wlog' = Append(wlog, EngineWrite("eot", << charEOT >>))
    /\ hist' = [hist EXCEPT !.cur.writes = @ + 1]
    /\ snd' = [snd EXCEPT !.pc = "eotreply"]
    /\ UNCHANGED << rd, modemState, termR, rcv, sink, splitVars, env >>

\* sendEOT returned err ("none" for nil): SendBreak drops it (src/port.go:289,
\* 300, 330); sendBuffer returns it to sendBytes, which returns, or to
\* sendList, which goes to its next file (src/port.go:380-384)
afterEOT(s, err) ==
    IF s.ctx = "break" THEN [s EXCEPT !.pc = "finish"]
    ELSE IF err # "none" \/ s.kind = "SendBytes" THEN sendReturn(s, err)
         ELSE sendListNext([s EXCEPT !.files = Tail(@)])

\* the read of sendEOT and what follows it, src/port.go:259-282
S_EOTReply ==
    /\ snd.pc = "eotreply"
    /\ RdAvail(rd["S"])
    /\ LET b == RdData(rd["S"], 1)[1]
           r == replyTo(snd, b)
           s == [snd EXCEPT !.count = r.count, !.can = r.can]
           t == IF r.res = "ack" THEN afterEOT(s, "none")
                ELSE IF r.res = "again" THEN [s EXCEPT !.pc = "eotwrite"]
                ELSE afterEOT(s, r.res)
       IN  /\ rd' = [rd EXCEPT !["S"] = RdAfter(@, 1)]
           /\ termR' = IF r.fwd THEN Forwarded("S", b, "reply") ELSE termR
           /\ hist' = histReply(b, r.res, t.pc)
           /\ snd' = t
    /\ UNCHANGED << transport, modemState, rcv, sink, wlog, splitVars, env >>

\* the errors after which SendBytes (src/port.go:299) and SendList
\* (src/port.go:329) call SendBreak
needsBreak(s) ==
    /\ s.err \notin {"none", "EOF", "TooLongFileInfo"}
    /\ s.kind = "SendBytes" => s.err # "IOCan"

\* SendBytes / SendList after sendBytes / sendList returned: SendBreak, which
\* writes CAN CAN or enters sendEOT, src/port.go:285-292, 299-301 and 329-331
S_End ==
    /\ snd.pc = "end"
    /\ IF needsBreak(snd)
       THEN IF HasFn(snd.cfg, ModemFnCANCAN)
            THEN /\ transport' = Written("S", << charCAN, charCAN >>)
                 /\ wlog' = Append(wlog, EngineWrite("break", << charCAN, charCAN >>))
                 /\ snd' = [snd EXCEPT !.pc = "finish"]
                 /\ hist' = hist
            ELSE /\ snd' = sendEOTStart(snd, "break")
                 /\ hist' = [hist EXCEPT !.cur = HistNew]
                 /\ UNCHANGED << transport, wlog >>
       ELSE /\ snd' = [snd EXCEPT !.pc = "finish"]
            /\ UNCHANGED << transport, wlog, hist >>
    /\ UNCHANGED << rd, modemState, termR, rcv, sink, splitVars, env >>

\* the call returns err.  The finish signal and the flush of lines 302-304
\* and 332-334 are the actions S_Signal and S_Flush of SpecSplit.
S_Return ==
    /\ snd.pc = "finish"
    /\ snd' = [snd EXCEPT !.pc = "done"]
    /\ UNCHANGED << transport, rd, modemState, termR, rcv, sink, wlog, hist, splitVars, env >>

(***************************************************************************)
(* The receiver: Receive and the functions it calls.                       *)
(***************************************************************************)
\* &File{}: the descriptor of a transfer without packet 0
FileZero == [Path |-> << >>, Length |-> 0, ModTime |-> 0, Mode |-> 0]

\* go fn(*file): the callback gets the descriptor; body is what bw.Write
\* has delivered to file.Body so far, closed is bw.Close()
sinkCall(file) ==
    Append(sink, [Path |-> file.Path, Length |-> file.Length, ModTime |-> file.ModTime,
                  Mode |-> file.Mode, body |-> << >>, closed |-> FALSE])

sinkWrite(data) == [sink EXCEPT ![Len(sink)].body = @ \o data]

sinkClose == [sink EXCEPT ![Len(sink)].closed = TRUE]

\* Receive up to the loop of receive, src/port.go:555-557 and 566
R_Begin ==
    /\ rcv.pc = "idle"
    /\ modemState' = [modemState EXCEPT !["R"] = 1]
    /\ rcv' = [rcv EXCEPT !.pc = "try"]
    /\ UNCHANGED << transport, rd, termR, snd, sink, wlog, hist, splitVars, env >>

\* the byte tryWorkMode writes first, src/port.go:434-461
tryByte(cfg) ==
    IF HasFn(cfg, ModemFnG) THEN charG
    ELSE IF HasFn(cfg, ModemFnCRC) THEN charCRC
    ELSE charNAK

\* tryWorkMode up to its first Peek, src/port.go:432-437 (449, 461)
R_Try ==
    /\ rcv.pc = "try"
    /\ transport' = Written("R", << tryByte(rcv.cfg) >>)
    /\ rcv' = [rcv EXCEPT !.try = tryByte(rcv.cfg), !.tries = 1,
                          !.adv = << tryByte(rcv.cfg) >>, !.pc = "peek"]
    /\ UNCHANGED << rd, modemState, termR, snd, sink, wlog, hist, splitVars, env >>

\* Peek(1) returned: tryWorkMode returns the byte it wrote; receive goes on
\* to packet 0 in batch mode, else calls the callback and goes to the body,
\* src/port.go:438-439 and 567-589
R_Peek ==
    /\ rcv.pc = "peek"
    /\ RdAvail(rd["R"])
    /\ rd' = [rd EXCEPT !["R"] = RdPeek(@)]
    /\ IF HasFn(rcv.cfg, ModemFnBatch)
       THEN /\ rcv' = [rcv EXCEPT !.mode = rcv.try, !.stage = "info", !.index = 0,
                                  !.pc = "hdr"]
            /\ sink' = sink
       ELSE /\ rcv' = [rcv EXCEPT !.mode = rcv.try, !.stage = "data", !.index = 1,
                                  !.file = FileZero, !.writed = 0, !.pc = "hdr"]
            /\ sink' = sinkCall(FileZero)
    /\ UNCHANGED << transport, modemState, termR, snd, wlog, hist, splitVars, env >>

\* Receive returns err ("none" for nil), src/port.go:558-561
receiveReturn(r, err) == [r EXCEPT !.err = err, !.pc = "end"]

\* the read of one header byte in receivePack, src/port.go:482-491 and
\* 522-526, and for EOT what receive does with ([]byte{}, io.EOF),
\* src/port.go:573-576 and 591-610
R_Header ==
    /\ rcv.pc = "hdr"
    /\ RdAvail(rd["R"])
    /\ LET b == RdData(rd["R"], 1)[1]
       IN  /\ rd' = [rd EXCEPT !["R"] = RdAfter(@, 1)]
           /\ IF b = charSOH \/ b = charSTX
              THEN /\ rcv' = [rcv EXCEPT !.bn = SizeSOH + (IF b = charSTX THEN Size1K ELSE 0),
                                         !.hdr = b, !.cans = 0, !.pc = "body"]
                   /\ UNCHANGED << transport, termR, sink >>
              ELSE IF b = charEOT
                   THEN IF rcv.stage = "info"
                        THEN /\ rcv' = receiveReturn([rcv EXCEPT !.cans = 0], "EOF")
                             /\ UNCHANGED << transport, termR, sink >>
                        ELSE /\ transport' = Written("R", << charACK >>)
                             /\ sink' = sinkClose
                             /\ rcv' = IF HasFn(rcv.cfg, ModemFnBatch)
                                       THEN [rcv EXCEPT !.index = (@ + 1) % 256, !.cans = 0,
                                                         !.pc = "try"]
                                       ELSE receiveReturn([rcv EXCEPT !.index = (@ + 1) % 256,
                                                                      !.cans = 0], "none")
                             /\ termR' = termR
                   ELSE /\ termR' = Forwarded("R", b, "header")
                        /\ rcv' = [rcv EXCEPT !.cans = IF b = charCAN THEN @ + 1 ELSE 0]
                        /\ UNCHANGED << transport, sink >>
    /\ UNCHANGED << modemState, snd, wlog, hist, splitVars, env >>

\* receivePack that in G mode goes on after a CRC that is wrong
receivePackNoCrc(got, index, workMode, bn) ==
    LET n == 2 + (IF workMode = charNAK THEN 1 ELSE 2)
        buf == got \o Zeros(n + bn - Len(got))
        badIndex == BitXor(buf[1], buf[2]) # 255 \/ buf[1] # index
        data == SubSeq(buf, 3, 2 + bn)
        badSum == IF workMode = charNAK
                  THEN checksum(data) # SubSeq(buf, 3 + bn, 3 + bn)
                  ELSE crc16(data) # SubSeq(buf, 3 + bn, 4 + bn)
        naks == (IF badIndex THEN << charNAK >> ELSE << >>)
                    \o (IF badSum THEN << charNAK >> ELSE << >>)
    IN  IF workMode = charG
        THEN IF badIndex
             THEN [replies |-> << >>, err |-> "GModeWithWrong", data |-> << >>]
             ELSE [replies |-> << >>, err |-> "none", data |-> data]
        ELSE [replies |-> naks \o << charACK >>, err |-> "none", data |-> data]

\* the rest of receivePack after a header: buf is make([]byte, n+bn) with
\* what one Read put in it; replies are the bytes written, err the error,
\* data the payload returned, src/port.go:475-480 and 492-521
receivePack(got, index, workMode, bn) ==
    LET n == 2 + (IF workMode = charNAK THEN 1 ELSE 2)
        buf == got \o Zeros(n + bn - Len(got))
        badIndex == BitXor(buf[1], buf[2]) # 255 \/ buf[1] # index
        data == SubSeq(buf, 3, 2 + bn)
        badSum == IF workMode = charNAK
                  THEN checksum(data) # SubSeq(buf, 3 + bn, 3 + bn)
                  ELSE crc16(data) # SubSeq(buf, 3 + bn, 4 + bn)
        naks == (IF badIndex THEN << charNAK >> ELSE << >>)
                    \o (IF badSum THEN << charNAK >> ELSE << >>)
    IN  IF workMode = charG
        THEN IF badIndex \/ badSum
             THEN [replies |-> << >>, err |-> "GModeWithWrong", data |-> << >>]
             ELSE [replies |-> << >>, err |-> "none", data |-> data]
        ELSE [replies |-> naks \o << charACK >>, err |-> "none", data |-> data]

\* the Read of the packet in receivePack and what receive does with the
\* payload, src/port.go:492-521, 573-589 and 591-601
R_Body ==
    /\ rcv.pc = "body"
    /\ RdAvail(rd["R"])
    /\ LET want == 2 + (IF rcv.mode = charNAK THEN 1 ELSE 2) + rcv.bn
       IN
       \E p \in { receivePack(RdData(rd["R"], want), rcv.index, rcv.mode, rcv.bn) } :
       LET info == parseFileInfo(p.data)
           seen == [replies |-> p.replies, data |-> p.data]
           read(sunk, next) ==
               [hdr |-> rcv.hdr, raw |-> RdData(rd["R"], want), index |-> rcv.index,
                mode |-> rcv.mode, replies |-> p.replies, data |-> p.data,
                sunk |-> sunk, next |-> next]
           left == rcv.file.Length - rcv.writed
           data == IF rcv.file.Length > 0 /\ Len(p.data) > left
                   THEN SubSeq(p.data, 1, left) ELSE p.data
       IN  /\ rd' = [rd EXCEPT !["R"] = RdAfter(@, want)]
           /\ transport' = Written("R", p.replies)
           /\ IF p.err # "none"
              THEN /\ rcv' = receiveReturn([rcv EXCEPT !.pack = read(FALSE, rcv.index)], p.err)
                   /\ sink' = IF rcv.stage = "data" THEN sinkClose ELSE sink
              ELSE IF rcv.stage = "info"
                   THEN IF info.err # "none"
                        THEN /\ rcv' = receiveReturn([rcv EXCEPT !.pack0 = seen,
                                                                !.pack = read(FALSE, rcv.index)],
                                                     info.err)
                             /\ sink' = sink
                        ELSE /\ rcv' = [rcv EXCEPT
                                   !.pack0 = seen,
                                   !.pack = read(TRUE, 1),
                                   !.file = [Path |-> info.Path, Length |-> info.Length,
                                             ModTime |-> info.ModTime, Mode |-> info.Mode],
                                   !.stage = "data", !.index = 1, !.writed = 0, !.pc = "hdr"]
                             /\ sink' = sinkCall(info)
                   ELSE /\ rcv' = [rcv EXCEPT !.pack = read(TRUE, (rcv.index + 1) % 256),
                                              !.index = (@ + 1) % 256,
                                              !.writed = @ + Len(data), !.pc = "hdr"]
                        /\ sink' = sinkWrite(data)
    /\ UNCHANGED << modemState, termR, snd, wlog, hist, splitVars, env >>

\* Receive returns.  The finish signal and the flush of lines 558-560 are
\* those of S_Signal and S_Flush.
R_Return ==
    /\ rcv.pc = "end"
    /\ rcv' = [rcv EXCEPT !.pc = "done"]
    /\ UNCHANGED << transport, rd, modemState, termR, snd, sink, wlog, hist, splitVars, env >>

(***************************************************************************)
(* Initial states.                                                         *)
(***************************************************************************)
\* the call not yet made: kind is SendBytes(body) or SendList(files); args
\* keeps the arguments, files and body are what is left of them to send
SndInit(kind, cfg, files, body) ==
    [pc |-> "idle", kind |-> kind, cfg |-> cfg, files |-> files, body |-> body,
     args |-> [files |-> files, body |-> body],
     stage |-> "none", ctx |-> "file", mode |-> 0, index |-> 0, total |-> 0,
     maxsize |-> 0, pack |-> << >>, fin |-> FALSE, tooLong |-> FALSE,
     count |-> 0, can |-> 0, err |-> "none"]

\* the call Receive(fn) not yet made; pack0, cans, adv and pack are
\* history: the replies to and the payload of the last packet 0 that
\* receivePack returned, the number of CAN bytes in a row that the reads of
\* a header byte returned last, the bytes the last tryWorkMode has written,
\* and of the last packet read: its header, the bytes the Read after the
\* header returned, the index expected, the work mode, the replies written,
\* the payload receivePack returned, whether receive gave it to the
\* callback, and the index expected after it
RcvInit(cfg) ==
    [pc |-> "idle", cfg |-> cfg, try |-> 0, tries |-> 0, adv |-> << >>,
     mode |-> 0, stage |-> "none",
     index |-> 0, bn |-> 0, file |-> FileZero, writed |-> 0, err |-> "none",
     pack0 |-> [replies |-> << >>, data |-> << >>], cans |-> 0,
     hdr |-> 0,
     pack |-> [hdr |-> 0, raw |-> << >>, index |-> 0, mode |-> 0, replies |-> << >>,
               data |-> << >>, sunk |-> FALSE, next |-> 0]]

EnvInit == [calls |-> 1, peer |-> 0, host |-> 0, signals |-> 0, handled |-> 0]

HistInit == [cur |-> HistNew,
             last |-> [writes |-> 0, naks |-> 0, other |-> FALSE, end |-> "none",
                       then |-> "none"]]

\* what is the same in every initial state: NewModem has returned, nothing
\* was read or written, both pumps are at their first read
BaseInit ==
    /\ transport = [x \in Sides |-> << >>]
    /\ rd = [x \in Sides |-> RdEmpty]
    /\ modemState = [x \in Sides |-> 0]
    /\ termR = [x \in Sides |-> << >>]
    /\ sink = << >>
    /\ wlog = << >>
    /\ hist = HistInit
    /\ inPump = [pc |-> "read", buf |-> << >>]
    /\ outPump = [pc |-> "select", cache |-> << >>,
                  buf |-> [who |-> "none", data |-> << >>, act |-> FALSE, xfer |-> 0]]
    /\ finishChan = 0
    /\ wpipe = [who |-> "none", data |-> << >>, act |-> FALSE, xfer |-> 0]
    /\ discards = << >>
    /\ env = EnvInit

\* a file body of n bytes: the letters from 'A' on
Body(n) == [i \in 1..n |-> 64 + i]

\* the files of the batch scenarios: path, declared length, mtime, mode, body
FileA == [Path |-> << 97 >>, Length |-> 5, ModTime |-> 1, Mode |-> 420, Body |-> Body(5)]
FileB == [Path |-> << 98 >>, Length |-> 0, ModTime |-> 2, Mode |-> 384, Body |-> << >>]
FileC == [Path |-> << 99, 100 >>, Length |-> 12, ModTime |-> 9, Mode |-> 420, Body |-> Body(12)]
\* a body longer than the declared length
FileD == [Path |-> << 100 >>, Length |-> 3, ModTime |-> 1, Mode |-> 420, Body |-> Body(5)]
\* a path that makes the file info longer than a 1K packet
FileE == [Path |-> Fill(Size1K, 101), Length |-> 1, ModTime |-> 1, Mode |-> 420, Body |-> Body(1)]

Batches == { << >>, << FileA >>, << FileA, FileB >>, << FileC >>, << FileD >>, << FileE >> }

\* the feature sets of the XMODEM round trip: every subset of {1k, CRC}
XFeatures == { 0, ModemFn1k, ModemFnCRC, BitOr(ModemFn1k, ModemFnCRC) }

\* the feature sets given to YModemConfig
YFeatures == { 0, ModemFnG }

(***************************************************************************)
(* Spec: a sending modem and a receiving modem back to back: what one      *)
(* writes is the transport the other reads, and both are built on the same *)
(* configuration.  Both have stored modemState = 1 before the peer's first *)
(* byte is pumped.                                                         *)
(***************************************************************************)
Init ==
    /\ BaseInit
    /\ \/ \E f \in XFeatures, n \in 0..MaxBody :
            /\ snd = SndInit("SendBytes", XModemConfig(f), << >>, Body(n))
            /\ rcv = RcvInit(XModemConfig(f))
       \/ \E f \in YFeatures, files \in Batches :
            /\ snd = SndInit("SendList", YModemConfig(f), files, << >>)
            /\ rcv = RcvInit(YModemConfig(f))

Sender ==
    \/ S_Begin
    \/ S_WaitMode
    \/ S_Fill
    \/ S_Write
    \/ S_Reply
    \/ S_WriteEOT
    \/ S_EOTReply
    \/ S_End
    \/ S_Return

Receiver ==
    \/ R_Begin
    \/ R_Try
    \/ R_Peek
    \/ R_Header
    \/ R_Body
    \/ R_Return

Next ==
    \/ Sender
    \/ Receiver
    \/ PumpActive("S")
    \/ PumpActive("R")

Spec == Init /\ [][Next]_vars

(***************************************************************************)
(* SpecSend: the sending modem against a scripted peer.  The peer answers  *)
(* one byte at a time, and only while the sender waits for a byte.  NAK is *)
(* always among its answers (the sender bounds the NAKs of one packet      *)
(* itself); MaxPeerBytes bounds the other bytes.                           *)
(***************************************************************************)
\* a byte that is no control byte of the protocol: 'x'
chOther == 120

PeerBytes == { charACK, charCAN, chOther, charCRC }

SendFeatures == { ModemXMin, BitOr(ModemFnCRC, ModemFnCANCAN) }

\* no body, a body of one packet, a body of two packets
SendBodies == { 0, 1, SizeSOH + 1 }

InitSend ==
    /\ BaseInit
    /\ \E f \in SendFeatures, n \in SendBodies :
            /\ snd = SndInit("SendBytes", XModemConfig(f), << >>, Body(n))
            /\ rcv = RcvInit(XModemConfig(f))

SenderWaits == snd.pc \in { "waitmode", "reply", "eotreply" }

\* the peer writes one byte b to its end of the channel
P_Inject ==
    /\ SenderWaits
    /\ transport["S"] = << >>
    /\ ~RdAvail(rd["S"])
    /\ \E b \in PeerBytes \cup { charNAK } :
          /\ b # charNAK => env.peer < MaxPeerBytes
          /\ transport' = [transport EXCEPT !["S"] = << b >>]
          /\ env' = [env EXCEPT !.peer = IF b = charNAK THEN @ ELSE @ + 1]
    /\ UNCHANGED << rd, modemState, termR, snd, rcv, sink, wlog, hist, splitVars >>

NextSend ==
    \/ Sender
    \/ P_Inject
    \/ PumpActive("S")

SpecSend == InitSend /\ [][NextSend]_vars

(***************************************************************************)
(* SpecSplit: one modem with the two pumps of NewModem, the goroutines     *)
(* they start, the host on the terminal pair and the peer on the           *)
(* transport.  Transfer calls are made one after the other on the modem.   *)
(* A Read of modemR by a goroutine of lines 98-100 or 122-124 is taken as  *)
(* one step, as is each Read of the engine.                                *)
(***************************************************************************)
\* a byte the peer writes while the modem is idle: 'i'
chIdle == 105
\* the first byte the host writes to the terminal writer
chHost == 200

\* an entry of termR written by the inbound pump's rw.Write(buf[:n])
Routed(b, st) == [b |-> b, via |-> "pump", at |-> "idle", st |-> st]

RECURSIVE RoutedAll(_, _)
RoutedAll(buf, st) ==
    IF buf = << >> THEN << >>
    ELSE << Routed(Head(buf), st) >> \o RoutedAll(Tail(buf), st)

\* a goroutine that reads n bytes of modemR is started: discards is kept in
\* the order of the sizes (the goroutines are not ordered)
RECURSIVE Spawn(_, _)
Spawn(s, n) ==
    IF s = << >> THEN << n >>
    ELSE IF n <= Head(s) THEN << n >> \o s
         ELSE << Head(s) >> \o Spawn(Tail(s), n)

\* discards without its i-th element
Without(s, i) == SubSeq(s, 1, i - 1) \o SubSeq(s, i + 1, Len(s))

\* reader.Read(buf) of the inbound pump returns, src/port.go:90; the pump
\* is back at this Read only when its mrw.Write was taken
IP_Read ==
    /\ inPump.pc = "read"
    /\ transport["S"] # << >>
    /\ rd["S"].pipe = << >>
    /\ inPump' = [pc |-> "route", buf |-> Take(transport["S"], PumpBuf)]
    /\ transport' = [transport EXCEPT !["S"] = Drop(@, PumpBuf)]
    /\ UNCHANGED << rd, modemState, termR, snd, rcv, sink, wlog, hist,
                    outPump, finishChan, wpipe, discards, env >>

\* the inbound pump that writes every chunk to the terminal reader
routesAlways(state) == TRUE

\* the test of the inbound pump on the modemState it loaded, src/port.go:96
routesToTerminal(state) == state = 0

\* the load of modemState and the writes that follow it, src/port.go:96-104
IP_Route ==
    /\ inPump.pc = "route"
    /\ IF routesToTerminal(modemState["S"])
       THEN /\ termR' = [termR EXCEPT !["S"] = @ \o RoutedAll(inPump.buf, modemState["S"])]
            /\ discards' = Spawn(discards, Len(inPump.buf))
       ELSE UNCHANGED << termR, discards >>
    /\ rd' = [rd EXCEPT !["S"].pipe = inPump.buf]
    /\ inPump' = [pc |-> "read", buf |-> << >>]
    /\ UNCHANGED << transport, modemState, snd, rcv, sink, wlog, hist,
                    outPump, finishChan, wpipe, env >>

\* modemR.Read(make([]byte, n)) of one of the goroutines returns,
\* src/port.go:98-100 and 122-124
Discard ==
    /\ RdAvail(rd["S"])
    /\ \E i \in 1..Len(discards) :
          /\ rd' = [rd EXCEPT !["S"] = RdAfter(@, discards[i])]
          /\ discards' = Without(discards, i)
    /\ UNCHANGED << transport, modemState, termR, snd, rcv, sink, wlog, hist,
                    inPump, outPump, finishChan, wpipe, env >>

\* no Write is pending on the terminal writer's pipe
NoWrite == [who |-> "none", data |-> << >>, act |-> FALSE, xfer |-> 0]

\* an entry of wlog for terminal bytes the outbound pump writes to the
\* transport; done is the number of finish signals handled, this one included
PumpWrite(kind, w, done) ==
    [src |-> "host", kind |-> kind, bytes |-> w.data, mode |-> 0, stage |-> "none",
     xfer |-> w.xfer, act |-> w.act, done |-> done]

RECURSIVE PumpWrites(_, _, _)
PumpWrites(kind, ws, done) ==
    IF ws = << >> THEN << >>
    ELSE << PumpWrite(kind, Head(ws), done) >> \o PumpWrites(kind, Tail(ws), done)

RECURSIVE CacheBytes(_)
CacheBytes(ws) == IF ws = << >> THEN << >> ELSE Head(ws).data \o CacheBytes(Tail(ws))

\* the select of the outbound pump, src/port.go:117-126: with a value in
\* finishChan the case of lines 118-125 runs (the cache is written and
\* reset, modemState is stored, a goroutine is started), else the pump goes
\* to its wr.Read
OP_Select ==
    /\ outPump.pc = "select"
    /\ IF finishChan > 0
       THEN /\ finishChan' = 0
            /\ transport' = Written("S", CacheBytes(outPump.cache))
            /\ wlog' = wlog \o PumpWrites("flush", outPump.cache, env.handled + 1)
            /\ outPump' = [outPump EXCEPT !.cache = << >>]
            /\ modemState' = [modemState EXCEPT !["S"] = 0]
            /\ discards' = Spawn(discards, PumpBuf)
            /\ env' = [env EXCEPT !.handled = @ + 1]
       ELSE /\ outPump' = [outPump EXCEPT !.pc = "read"]
            /\ UNCHANGED << finishChan, transport, wlog, modemState, discards, env >>
    /\ UNCHANGED << rd, termR, snd, rcv, sink, hist, inPump, wpipe >>

\* wr.Read(buf) returns the pending Write, src/port.go:127; that Write returns
OP_Read ==
    /\ outPump.pc = "read"
    /\ wpipe.who # "none"
    /\ outPump' = [outPump EXCEPT !.pc = "check", !.buf = wpipe]
    /\ wpipe' = NoWrite
    /\ UNCHANGED << transport, rd, modemState, termR, snd, rcv, sink, wlog, hist,
                    inPump, finishChan, discards, env >>

\* the load of modemState and the Write that follows it, src/port.go:131-135
OP_Check ==
    /\ outPump.pc = "check"
    /\ IF modemState["S"] = 0
       THEN /\ transport' = Written("S", outPump.buf.data)
            /\ wlog' = IF outPump.buf.data = << >> THEN wlog
                       ELSE Append(wlog, PumpWrite("direct", outPump.buf, env.handled))
            /\ outPump' = [outPump EXCEPT !.pc = "select", !.buf = NoWrite]
       ELSE /\ outPump' = [outPump EXCEPT !.pc = "select", !.buf = NoWrite,
                                          !.cache = IF outPump.buf.data = << >> THEN @
                                                    ELSE Append(@, outPump.buf)]
            /\ UNCHANGED << transport, wlog >>
    /\ UNCHANGED << rd, modemState, termR, snd, rcv, sink, hist,
                    inPump, finishChan, wpipe, discards, env >>

\* the number of the transfer call that was begun last
LastCall == IF snd.pc = "idle" THEN env.calls - 1 ELSE env.calls

\* the host writes one byte to the terminal writer; act and xfer are
\* history: modemState was 1 then, and the call begun last
HostWrite ==
    /\ wpipe.who = "none"
    /\ env.host < MaxSplitBytes
    /\ wpipe' = [who |-> "host", data |-> << chHost + env.host >>,
                 act |-> modemState["S"] = 1, xfer |-> LastCall]
    /\ env' = [env EXCEPT !.host = @ + 1]
    /\ UNCHANGED << engineVars, inPump, outPump, finishChan, discards >>

\* the peer writes one byte to the transport: a byte of the protocol or 'x'
\* while the modem is active, 'i' while it is idle
PeerWrite ==
    /\ env.peer < MaxSplitPeer
    /\ \E b \in IF modemState["S"] = 1 THEN { charACK, chOther } ELSE { chIdle } :
          transport' = [transport EXCEPT !["S"] = @ \o << b >>]
    /\ env' = [env EXCEPT !.peer = @ + 1]
    /\ UNCHANGED << rd, modemState, termR, snd, rcv, sink, wlog, hist, splitVars >>

\* m.finishChan <- true, src/port.go:302, 332
S_Signal ==
    /\ snd.pc = "finish"
    /\ finishChan = 0
    /\ finishChan' = 1
    /\ snd' = [snd EXCEPT !.pc = "flush"]
    /\ env' = [env EXCEPT !.signals = @ + 1]
    /\ UNCHANGED << transport, rd, modemState, termR, rcv, sink, wlog, hist,
                    inPump, outPump, wpipe, discards >>

\* a call that ends without the Write that wakes the outbound pump
flushNothing(act, xfer) == [who |-> "none", data |-> << >>, act |-> FALSE, xfer |-> 0]

\* the Write of no bytes that the call ends with, src/port.go:304, 334, 560
flushWrite(act, xfer) == [who |-> "engine", data |-> << >>, act |-> act, xfer |-> xfer]

\* m.termWW.Write([]byte{}) is issued, src/port.go:304, 334
S_Flush ==
    /\ snd.pc = "flush"
    /\ wpipe.who = "none"
    /\ wpipe' = flushWrite(modemState["S"] = 1, env.calls)
    /\ snd' = [snd EXCEPT !.pc = "flushed"]
    /\ UNCHANGED << transport, rd, modemState, termR, rcv, sink, wlog, hist,
                    inPump, outPump, finishChan, discards, env >>

\* that Write was taken by the outbound pump: the call returns err
S_Flushed ==
    /\ snd.pc = "flushed"
    /\ wpipe.who # "engine"
    /\ snd' = [snd EXCEPT !.pc = "done"]
    /\ UNCHANGED << transport, rd, modemState, termR, rcv, sink, wlog, hist,
                    splitVars, env >>

\* the modems of SpecSplit are XMODEM modems and the calls made on them are
\* SendList calls: sendList returns WrongModemType and SendBreak follows,
\* which writes CAN CAN with ModemFnCANCAN and else enters sendEOT
SplitConfigs == { XModemConfig(ModemXMin), XModemConfig(ModemFnCANCAN) }

\* the next transfer call on the same modem
S_Again ==
    /\ snd.pc = "done"
    /\ env.calls < MaxCalls
    /\ snd' = SndInit("SendList", snd.cfg, << >>, << >>)
    /\ env' = [env EXCEPT !.calls = @ + 1]
    /\ hist' = HistInit
    /\ UNCHANGED << transport, rd, modemState, termR, rcv, sink, wlog, splitVars >>

InitSplit ==
    /\ BaseInit
    /\ \E cfg \in SplitConfigs :
          /\ snd = SndInit("SendList", cfg, << >>, << >>)
          /\ rcv = RcvInit(cfg)

\* the steps of these calls: sendPack and sendBuffer are not entered
Engine ==
    \/ S_Begin
    \/ S_WriteEOT
    \/ S_EOTReply
    \/ S_End
    \/ S_Signal
    \/ S_Flush
    \/ S_Flushed
    \/ S_Again

InboundPump == IP_Read \/ IP_Route \/ Discard

OutboundPump == OP_Select \/ OP_Read \/ OP_Check

NextSplit ==
    \/ Engine
    \/ InboundPump
    \/ OutboundPump
    \/ HostWrite
    \/ PeerWrite

SpecSplit == InitSplit /\ [][NextSplit]_vars

(***************************************************************************)
(* SpecSplitIn: SpecSplit with a host that writes nothing: the inbound     *)
(* side of the splitter.                                                   *)
(***************************************************************************)
NextSplitIn ==
    \/ Engine
    \/ InboundPump
    \/ OutboundPump
    \/ PeerWrite

SpecSplitIn == InitSplit /\ [][NextSplitIn]_vars

(***************************************************************************)
(* SpecSplitOut: SpecSplit with a peer that writes nothing, on the modem   *)
(* with ModemFnCANCAN, whose calls end without a byte of the peer: the     *)
(* outbound side of the splitter.                                          *)
(***************************************************************************)
InitSplitOut ==
    /\ BaseInit
    /\ snd = SndInit("SendList", XModemConfig(ModemFnCANCAN), << >>, << >>)
    /\ rcv = RcvInit(XModemConfig(ModemFnCANCAN))

NextSplitOut ==
    \/ S_Begin
    \/ S_End
    \/ S_Signal
    \/ S_Flush
    \/ S_Flushed
    \/ S_Again
    \/ OutboundPump
    \/ HostWrite

SpecSplitOut == InitSplitOut /\ [][NextSplitOut]_vars

(***************************************************************************)
(* SpecSplitOutLive: SpecSplitOut with the scheduling of goroutines: the   *)
(* outbound pump and the end of a transfer call (the send on finishChan,   *)
(* the Write of no bytes, the return) take the steps they can take.        *)
(***************************************************************************)
SpecSplitOutLive ==
    /\ InitSplitOut
    /\ [][NextSplitOut]_vars
    /\ WF_vars(OutboundPump)
    /\ WF_vars(S_Signal)
    /\ WF_vars(S_Flush)
    /\ WF_vars(S_Flushed)

(***************************************************************************)
(* The claims.                                                             *)
(***************************************************************************)
\* got is body followed by nothing but the SUB bytes that fill the last packet
PaddedOf(body, got) ==
    /\ Len(got) >= Len(body)
    /\ Take(got, Len(body)) = body
    /\ \A i \in (Len(body) + 1)..Len(got) : got[i] = charSUB

\* both calls of the round trip have returned
BothReturned == snd.pc = "done" /\ rcv.pc = "done"

\* no byte is in flight to the modem or waits in its reader
NothingFor(side) == transport[side] = << >> /\ ~RdAvail(rd[side])

\* no step of the round trip is possible: each call has returned or waits
\* for a byte while none is on its way
Quiet ==
    /\ snd.pc = "done" \/ (SenderWaits /\ NothingFor("S"))
    /\ rcv.pc = "done" \/ (rcv.pc \in { "peek", "hdr", "body" } /\ NothingFor("R"))

\* C1: SendBytes and Receive connected back to back, with every feature set
\* over {1k, CRC}: both calls return without error and the sink received the
\* body sent.  Stated here in the weaker form the claim implies: the bytes
\* received are the body, followed at most by the SUB bytes that fill the
\* last packet.
C1_RoundTrip ==
    snd.kind = "SendBytes" =>
        /\ BothReturned =>
              /\ snd.err = "none"
              /\ rcv.err = "none"
              /\ Len(sink) = 1
              /\ PaddedOf(snd.args.body, sink[1].body)
        /\ Quiet => BothReturned

\* the sender is in the loop of sendPack or of sendEOT
InReplyLoop == snd.pc \in { "write", "reply", "eotwrite", "eotreply" }

\* C2: in a mode other than G, a packet (or the EOT) that the peer answers
\* with k < 10 NAKs and then ACK, and with nothing else, is written k + 1
\* times and the sender goes on to its next step; the 10th NAK ends the loop
\* with NAKTenTimes after 10 writes, without another write; the count of
\* NAKs starts at 0 with every packet.
C2_NakRetry ==
    /\ (hist.last.end = "ack" /\ ~hist.last.other) =>
          /\ hist.last.naks < 10
          /\ hist.last.writes = hist.last.naks + 1
          /\ hist.last.then \in { "fill", "eotwrite", "end", "finish", "waitmode" }
    /\ (hist.last.end = "NAKTenTimes" /\ ~hist.last.other) =>
          /\ hist.last.naks = 10
          /\ hist.last.writes = 10
          /\ hist.last.then \in { "end", "finish" }
    /\ (InReplyLoop /\ snd.mode # charG) => snd.count = hist.cur.naks
    /\ hist.cur.naks <= 10

\* a second packet was given up after 10 NAKs and nothing else
C2_Witness ==
    /\ hist.last.end = "NAKTenTimes"
    /\ ~hist.last.other
    /\ snd.index = 2
    /\ snd.stage = "data"

\* C3: two CAN bytes in a row, read by an endpoint that waits on its peer
\* (the sender for the reply to a packet or to EOT, the receiver for a
\* packet header), make the endpoint's call return IOCan.
C3_DoubleCan ==
    /\ snd.can >= 2 => (snd.err = "IOCan" /\ snd.pc \in { "end", "finish", "done" })
    /\ rcv.cans >= 2 => (rcv.err = "IOCan" /\ rcv.pc \in { "end", "done" })

\* the bytes the peer of SpecSplit writes only while the modem is active
ActiveBytes == { charACK, chOther }

Consumed(at, cfg) ==
    IF at = "mode" THEN { b \in { charNAK, charCRC, charG } : modeAccepted(cfg, b) }
    ELSE IF at = "reply" THEN { charACK, charNAK, charCAN }
    ELSE { charSOH, charSTX, charEOT }

C5_OutboundIsolation ==
    /\ \A i \in DOMAIN wlog :
          (wlog[i].src = "host" /\ wlog[i].act) => wlog[i].done >= wlog[i].xfer
    /\ \A i, j \in DOMAIN wlog :
          (i < j /\ wlog[i].src = "host" /\ wlog[j].src = "host")
              => wlog[i].bytes[1] < wlog[j].bytes[1]

\* the k-th byte of the host is in the cache of the outbound pump
Cached(k) == \E i \in DOMAIN outPump.cache : outPump.cache[i].data = << chHost + k >>

\* the k-th byte of the host was written to the transport
OnTransport(k) == \E i \in DOMAIN wlog : wlog[i].bytes = << chHost + k >>

\* C6: every transfer call that has come to its end returns, its finish is
\* handled (the cache is written to the transport, then modemState is set
\* to 0), and with it every terminal byte that was in the cache reaches the
\* transport; for each of the successive calls on the modem.
C6_FinishDrains ==
    /\ \A t \in 1..MaxCalls :
          (snd.pc = "finish" /\ env.calls = t) ~> (snd.pc = "done" /\ env.calls = t)
    /\ \A t \in 1..MaxCalls : (env.signals >= t) ~> (env.handled >= t)
    /\ \A k \in 0..(MaxSplitBytes - 1) :
          (Cached(k) /\ env.signals > env.handled) ~> OnTransport(k)

\* the finish of a second call was handled after terminal bytes were cached
C6_Witness ==
    /\ env.handled = MaxCalls
    /\ modemState["S"] = 0
    /\ \E k \in 0..(MaxSplitBytes - 1) :
          \E i \in DOMAIN wlog : wlog[i].bytes = << chHost + k >> /\ wlog[i].kind = "flush"

\* the packets the sender has written to the transport
Packs == { i \in DOMAIN wlog : wlog[i].kind = "pack" }

\* the packet is SOH with a payload of SizeSOH bytes or STX with one of
\* Size1K bytes, its second and third byte XOR to 0xFF, and it ends with
\* the checksum of the payload in mode NAK, with its crc16 in mode C or G
WellFormed(bytes, mode) ==
    LET size == IF bytes[1] = charSOH THEN SizeSOH ELSE Size1K
        sum == IF mode = charNAK THEN 1 ELSE 2
        payload == SubSeq(bytes, 4, 3 + size)
        trailer == SubSeq(bytes, 4 + size, Len(bytes))
    IN  /\ Len(bytes) >= 3
        /\ bytes[1] \in { charSOH, charSTX }
        /\ BitXor(bytes[2], bytes[3]) = 255
        /\ Len(bytes) = 3 + size + sum
        /\ trailer = IF mode = charNAK THEN checksum(payload) ELSE crc16(payload)

\* C7: every packet the sender writes to the transport, the packets 0 of a
\* batch included, is SOH with a payload of exactly SizeSOH bytes or STX
\* with a payload of exactly Size1K bytes, has index and complement that XOR
\* to 0xFF, and ends with the checksum (mode NAK) or the crc16 (mode C or G)
\* of its payload.
C7_WellFormedPackets ==
    \A i \in Packs : WellFormed(wlog[i].bytes, wlog[i].mode)

\* C8: the packet the sender writes after the last file of SendList, once it
\* has read one more mode byte, has index 0 and a payload of exactly SizeSOH
\* (or Size1K) zero bytes.
C8_EndOfBatchPacket ==
    \A i \in Packs :
        wlog[i].stage = "last" =>
            \/ wlog[i].bytes = Frame(0, Zeros(SizeSOH), wlog[i].mode)
            \/ wlog[i].bytes = Frame(0, Zeros(Size1K), wlog[i].mode)

\* the last packet 0 that receivePack returned to receive was valid (no NAK
\* was written for it) and its payload begins with NUL
EndOfBatchRead ==
    /\ rcv.pack0.data # << >>
    /\ rcv.pack0.data[1] = 0
    /\ \A i \in DOMAIN rcv.pack0.replies : rcv.pack0.replies[i] # charNAK

\* C9: once a batch Receive has read a valid packet 0 whose payload begins
\* with NUL, it has returned nil, it waits for no other packet, and the
\* callback was not called for that packet: it was called at most once for
\* each file of the SendList.
C9_EndOfBatchReturns ==
    EndOfBatchRead =>
        /\ rcv.pc \in { "end", "done" }
        /\ rcv.err = "none"
        /\ Len(sink) <= Len(snd.args.files)

\* the descriptor and the body the callback got are those of the file sent:
\* path, length, mtime and permission bits, and for a declared length
\* L > 0 exactly the first L bytes of the source
Delivered(got, file) ==
    /\ got.Path = file.Path
    /\ got.Length = file.Length
    /\ got.ModTime = file.ModTime
    /\ got.Mode = BitAnd(file.Mode, fsModePerm)
    /\ file.Length > 0 => got.body = Take(file.Body, file.Length)

\* C10: when SendList of N files has returned nil to a batch Receive over
\* reliable channels and nothing is left to read, the callback was called
\* for the N files in order, each time with the path, length, mtime and
\* permission bits sent, and for every declared length L > 0 its body got
\* exactly the L bytes of the source.
C10_BatchRoundTrip ==
    (snd.kind = "SendList" /\ snd.pc = "done" /\ snd.err = "none" /\ Quiet) =>
        /\ Len(sink) >= Len(snd.args.files)
        /\ \A i \in DOMAIN snd.args.files : Delivered(sink[i], snd.args.files[i])

(***************************************************************************)
(* SpecConfig: a modem whose configuration is built by XModemConfig or by  *)
(* YModemConfig from any set of the five features, and its first SendList  *)
(* of no files with a peer that writes nothing.  snd.args.fn keeps the     *)
(* argument of the constructor.                                            *)
(***************************************************************************)
Requested == 0..ModemYMax

InitConfig ==
    /\ BaseInit
    /\ \E f \in Requested :
          snd = [SndInit("SendList", [mode |-> "none", fn |-> 0], << >>, << >>)
                    EXCEPT !.pc = "new",
                           !.args = [files |-> << >>, body |-> << >>, fn |-> f]]
    /\ rcv = RcvInit(XModemConfig(ModemXMin))

\* XModemConfig(fn) or YModemConfig(fn) is called, src/port.go:50-62
N_Config ==
    /\ snd.pc = "new"
    /\ \E c \in { XModemConfig(snd.args.fn), YModemConfig(snd.args.fn) } :
          snd' = [snd EXCEPT !.cfg = c, !.pc = "idle"]
    /\ UNCHANGED << transport, rd, modemState, termR, rcv, sink, wlog, hist, splitVars, env >>

NextConfig ==
    \/ N_Config
    \/ S_Begin
    \/ S_End
    \/ S_WriteEOT
    \/ S_Return

SpecConfig == InitConfig /\ [][NextConfig]_vars

\* the feature f was given to the constructor
Asked(f) == BitAnd(snd.args.fn, f) # 0

\* C11: XModemConfig(f) keeps exactly the bits 1k, CRC and CANCAN of f and
\* clears Batch and G; YModemConfig(f) sets Batch and has each of 1k, CRC,
\* CANCAN and G exactly when f has it.
C11_ConfigNormalization ==
    /\ snd.cfg.mode = "XModem" =>
          /\ \A f \in { ModemFn1k, ModemFnCRC, ModemFnCANCAN } : HasFn(snd.cfg, f) <=> Asked(f)
          /\ ~HasFn(snd.cfg, ModemFnBatch)
          /\ ~HasFn(snd.cfg, ModemFnG)
    /\ snd.cfg.mode = "YModem" =>
          /\ HasFn(snd.cfg, ModemFnBatch)
          /\ \A f \in { ModemFn1k, ModemFnCRC, ModemFnCANCAN, ModemFnG } :
                HasFn(snd.cfg, f) <=> Asked(f)

(***************************************************************************)
(* SpecBreak: SpecSend, and SendList with the same scripted peer: on a     *)
(* YMODEM modem a list of no file, of one file, and of a file longer than  *)
(* its declared length; on an XMODEM modem, where it is refused.           *)
(***************************************************************************)
BreakBatches == { << >>, << FileA >>, << FileD >> }

InitSendList ==
    /\ BaseInit
    /\ \/ \E files \in BreakBatches :
            /\ snd = SndInit("SendList", YModemConfig(ModemXMin), files, << >>)
            /\ rcv = RcvInit(YModemConfig(ModemXMin))
       \/ /\ snd = SndInit("SendList", XModemConfig(ModemXMin), << >>, << >>)
          /\ rcv = RcvInit(XModemConfig(ModemXMin))

InitBreak == InitSend \/ InitSendList

SpecBreak == InitBreak /\ [][NextSend]_vars

\* the writes of SendBreak: CAN CAN, or the EOT of the sendEOT it calls
BreakWrites ==
    { i \in DOMAIN wlog :
        \/ wlog[i].kind = "break"
        \/ wlog[i].kind = "eot" /\ wlog[i].ctx = "break" }

\* the errors of a send after which no break is due
NoBreakErrors == { "IOCan", "EOF", "TooLongFileInfo" }

\* C12: a send call that failed with IOCan, end of input or TooLongFileInfo
\* has written no break (neither CAN CAN nor the EOT of SendBreak); a call
\* that failed with another error has, by the time it signals finish,
\* written CAN CAN when CANCAN is enabled and else an EOT.
C12_BreakPolicy ==
    /\ snd.err \in NoBreakErrors => BreakWrites = { }
    /\ (snd.err \notin NoBreakErrors \cup { "none" } /\ snd.pc \in { "finish", "done" }) =>
          \E i \in BreakWrites :
              wlog[i].bytes = IF HasFn(snd.cfg, ModemFnCANCAN)
                              THEN << charCAN, charCAN >> ELSE << charEOT >>

(***************************************************************************)
(* SpecTry: Receive on a modem whose transport reader may fail or end.     *)
(* The inbound pump then closes the pipe of modemR (src/port.go:91-95 and  *)
(* 106-110) and every Peek and Read of the engine that finds no buffered   *)
(* byte returns the error.  The peer is scripted: it answers with a byte   *)
(* that is no header, or with EOT.                                         *)
(***************************************************************************)
\* bytes the peer may write in SpecTry
MaxTryPeer == 2

\* the attempts of one loop of tryWorkMode with the mutated bound
triesLeftTwo(i) == i < 2

\* for i := 0; i < 3; i++ after i attempts, src/port.go:435, 448, 460
triesLeft(i) == i < 3

\* the loop that follows the loop of byte b in tryWorkMode, 0 after the
\* last, src/port.go:447 and 460
weaker(cfg, b) ==
    IF b = charG THEN (IF HasFn(cfg, ModemFnCRC) THEN charCRC ELSE charNAK)
    ELSE IF b = charCRC THEN charNAK
    ELSE 0

\* reader.Read returned an error, or EOF with no byte, while the pump had
\* nothing left to hand over, src/port.go:90-95 and 106-110
T_Fails ==
    /\ rd["R"].closed = "no"
    /\ rd["R"].pipe = << >>
    /\ transport["R"] = << >>
    /\ \E e \in { "err", "eof" } : rd' = [rd EXCEPT !["R"].closed = e]
    /\ UNCHANGED << transport, modemState, termR, snd, rcv, sink, wlog, hist, splitVars, env >>

\* the peer writes one byte while the receiver waits
P_Answer ==
    /\ rcv.pc \in { "peek", "hdr" }
    /\ rd["R"].closed = "no"
    /\ transport["R"] = << >>
    /\ ~RdAvail(rd["R"])
    /\ env.peer < MaxTryPeer
    /\ \E b \in { chOther, charEOT } : transport' = [transport EXCEPT !["R"] = << b >>]
    /\ env' = [env EXCEPT !.peer = @ + 1]
    /\ UNCHANGED << rd, modemState, termR, snd, rcv, sink, wlog, hist, splitVars >>

\* Peek(1) returned an error: io.EOF ends tryWorkMode, any other error
\* goes on to the next attempt, the next loop, or the return after the last
\* loop, src/port.go:437-445, 450-458 and 462-471
R_PeekFails ==
    /\ rcv.pc = "peek"
    /\ ~RdAvail(rd["R"])
    /\ rd["R"].closed # "no"
    /\ rd' = [rd EXCEPT !["R"].last = -1]
    /\ IF rd["R"].closed = "eof"
       THEN /\ rcv' = receiveReturn(rcv, "EOF")
            /\ transport' = transport
       ELSE IF triesLeft(rcv.tries)
            THEN /\ transport' = Written("R", << rcv.try >>)
                 /\ rcv' = [rcv EXCEPT !.tries = @ + 1, !.adv = Append(@, rcv.try)]
            ELSE IF weaker(rcv.cfg, rcv.try) # 0
                 THEN /\ transport' = Written("R", << weaker(rcv.cfg, rcv.try) >>)
                      /\ rcv' = [rcv EXCEPT !.try = weaker(rcv.cfg, rcv.try), !.tries = 1,
                                            !.adv = Append(@, weaker(rcv.cfg, rcv.try))]
                 ELSE /\ rcv' = receiveReturn(rcv, "ReadError")
                      /\ transport' = transport
    /\ UNCHANGED << modemState, termR, snd, sink, wlog, hist, splitVars, env >>

\* a Read of receivePack returned an error: receive returns it, but takes
\* io.EOF after packet 0 for the end of the file, src/port.go:483-486,
\* 493-496, 573-576 and 591-610
R_ReadFails ==
    /\ rcv.pc \in { "hdr", "body" }
    /\ ~RdAvail(rd["R"])
    /\ rd["R"].closed # "no"
    /\ IF rd["R"].closed = "err"
       THEN /\ rcv' = receiveReturn(rcv, "ReadError")
            /\ sink' = IF rcv.stage = "data" THEN sinkClose ELSE sink
            /\ transport' = transport
       ELSE IF rcv.stage = "info"
            THEN /\ rcv' = receiveReturn(rcv, "EOF")
                 /\ UNCHANGED << transport, sink >>
            ELSE /\ transport' = Written("R", << charACK >>)
                 /\ sink' = sinkClose
                 /\ rcv' = IF HasFn(rcv.cfg, ModemFnBatch)
                           THEN [rcv EXCEPT !.index = (@ + 1) % 256, !.pc = "try"]
                           ELSE receiveReturn([rcv EXCEPT !.index = (@ + 1) % 256], "none")
    /\ UNCHANGED << rd, modemState, termR, snd, wlog, hist, splitVars, env >>

TryConfigs ==
    { XModemConfig(ModemXMin), XModemConfig(ModemFnCRC),
      YModemConfig(ModemXMin), YModemConfig(ModemFnG) }

InitTry ==
    /\ BaseInit
    /\ \E c \in TryConfigs :
          /\ snd = SndInit("SendBytes", c, << >>, << >>)
          /\ rcv = RcvInit(c)

NextTry ==
    \/ R_Begin
    \/ R_Try
    \/ R_Peek
    \/ R_PeekFails
    \/ R_Header
    \/ R_ReadFails
    \/ R_Return
    \/ T_Fails
    \/ P_Answer
    \/ PumpActive("R")

SpecTry == InitTry /\ [][NextTry]_vars

\* the byte the receiver of configuration cfg is to write first
Preferred(cfg) ==
    IF HasFn(cfg, ModemFnG) THEN charG
    ELSE IF HasFn(cfg, ModemFnCRC) THEN charCRC
    ELSE charNAK

\* the dialect that is one weaker than b under cfg
NextWeaker(cfg, b) ==
    IF b = charG /\ HasFn(cfg, ModemFnCRC) THEN charCRC ELSE charNAK

\* the bytes adv[i-k+1..i] are all equal
SameRun(adv, i, k) == \A j \in (i - k + 1)..i : adv[j] = adv[i]

\* C13: the first byte a tryWorkMode writes is G when G is enabled, C when
\* CRC is enabled and G is not, NAK otherwise; a byte different from the one
\* before it is the next weaker one and comes after exactly 3 attempts of
\* the one before it; and the work mode tryWorkMode returned is the byte it
\* wrote last.
C13_ModePreference ==
    /\ rcv.adv # << >> => rcv.adv[1] = Preferred(rcv.cfg)
    /\ \A i \in 1..(Len(rcv.adv) - 1) :
          rcv.adv[i + 1] # rcv.adv[i] =>
              /\ i >= 3
              /\ SameRun(rcv.adv, i, 3)
              /\ rcv.adv[i + 1] = NextWeaker(rcv.cfg, rcv.adv[i])
    /\ \A i \in 4..Len(rcv.adv) : ~SameRun(rcv.adv, i, 4)
    /\ rcv.pc \in { "hdr", "body" } => rcv.mode = rcv.adv[Len(rcv.adv)]

\* G was tried 3 times without an answer and C was written after it
C13_Witness ==
    /\ Len(rcv.adv) >= 4
    /\ SameRun(rcv.adv, 3, 3)
    /\ rcv.adv[3] = charG
    /\ rcv.adv[4] = charCRC

(***************************************************************************)
(* SpecRecv: Receive on an XMODEM modem with a scripted sender: while the  *)
(* receiver waits for a header, the peer writes an SOH packet of index 1   *)
(* or 2 (as sendPack builds it, or with its complement byte, its index or  *)
(* its payload changed in transit), an STX packet, or EOT.                 *)
(***************************************************************************)
\* packets and EOTs the scripted sender may write
MaxFrames == 2

\* s with its i-th byte replaced by b
Changed(s, i, b) == [s EXCEPT ![i] = b]

\* the packets of index i in work mode mode that may arrive
Arriving(i, mode) ==
    LET sent == Frame(i, Body(SizeSOH), mode)
    IN  { sent,
          Changed(sent, 3, (sent[3] + 1) % 256),
          Changed(sent, 4, (sent[4] + 1) % 256),
          Frame(i, Body(Size1K), mode) }

\* the scripted sender writes in the work mode the receiver asked for
P_Frame ==
    /\ rcv.pc \in { "peek", "hdr" }
    /\ transport["R"] = << >>
    /\ ~RdAvail(rd["R"])
    /\ env.peer < MaxFrames
    /\ \E f \in Arriving(1, rcv.try) \cup Arriving(2, rcv.try) \cup { << charEOT >> } :
          transport' = [transport EXCEPT !["R"] = f]
    /\ env' = [env EXCEPT !.peer = @ + 1]
    /\ UNCHANGED << rd, modemState, termR, snd, rcv, sink, wlog, hist, splitVars >>

RecvConfigs == { XModemConfig(ModemXMin), XModemConfig(ModemFnCRC) }

InitRecv ==
    /\ BaseInit
    /\ \E c \in RecvConfigs :
          /\ snd = SndInit("SendBytes", c, << >>, << >>)
          /\ rcv = RcvInit(c)

NextRecv ==
    \/ Receiver
    \/ P_Frame
    \/ PumpActive("R")

SpecRecv == InitRecv /\ [][NextRecv]_vars

\* the length of the integrity trailer in a work mode
TrailerLen(mode) == IF mode = charNAK THEN 1 ELSE 2

\* the payload size that goes with a header byte
SizeOf(hdr) == IF hdr = charSTX THEN Size1K ELSE SizeSOH

\* the last packet read was an SOH packet and the Read after its header
\* returned all of it
WholeSOH ==
    /\ rcv.pack.hdr = charSOH
    /\ Len(rcv.pack.raw) = 2 + SizeSOH + TrailerLen(rcv.pack.mode)

\* the checks a packet must pass: complement, index, integrity trailer
PassesChecks(pk) ==
    LET payload == SubSeq(pk.raw, 3, 2 + SizeSOH)
        trailer == SubSeq(pk.raw, 3 + SizeSOH, Len(pk.raw))
    IN  /\ BitXor(pk.raw[1], pk.raw[2]) = 255
        /\ pk.raw[1] = pk.index
        /\ trailer = IF pk.mode = charNAK THEN checksum(payload) ELSE crc16(payload)

\* C14: in a mode other than G the receiver writes exactly one reply to a
\* packet it has read: NAK when the complement, the index or the integrity
\* trailer is wrong, and then the payload does not reach the callback and
\* the expected index stays; ACK when all checks pass, and then the payload
\* reaches the callback and the expected index moves on.
C14_OneReply ==
    (WholeSOH /\ rcv.pack.mode # charG) =>
        /\ Len(rcv.pack.replies) = 1
        /\ PassesChecks(rcv.pack) =>
              /\ rcv.pack.replies = << charACK >>
              /\ rcv.pack.sunk
              /\ rcv.pack.next = (rcv.pack.index + 1) % 256
        /\ ~PassesChecks(rcv.pack) =>
              /\ rcv.pack.replies = << charNAK >>
              /\ ~rcv.pack.sunk
              /\ rcv.pack.next = rcv.pack.index

\* C15: after the header of a packet the receiver takes exactly 2 + size +
\* t bytes, size being SizeSOH after SOH and Size1K after STX and t the
\* length of the trailer, and the payload is the bytes 3..(2 + size) of
\* them.
C15_FrameLength ==
    rcv.pack.hdr # 0 =>
        /\ Len(rcv.pack.raw) = 2 + SizeOf(rcv.pack.hdr) + TrailerLen(rcv.pack.mode)
        /\ rcv.pack.data = SubSeq(rcv.pack.raw, 3, 2 + SizeOf(rcv.pack.hdr))

\* C16: in a mode other than G, the sender that waits for the reply to a
\* packet or to EOT has written it once and once more for every NAK it has
\* read since: a byte that is none of ACK, NAK, CAN, and a single CAN, cause
\* no write.
C16_RetransmitOnlyOnNak ==
    (snd.pc \in { "reply", "eotreply" } /\ snd.mode # charG) =>
        hist.cur.writes = hist.cur.naks + 1

(***************************************************************************)
(* SpecFrame: SendBytes with a peer that answers the way a receiver does   *)
(* when all goes well: a work mode the sender accepts, then ACK to every   *)
(* packet and to the EOT.                                                  *)
(***************************************************************************)
\* longest body of SpecFrame
MaxFrameBody == 41

FrameFeatures == { ModemXMin, ModemFn1k, ModemFnCRC, BitOr(ModemFn1k, ModemFnCRC) }

\* a body of 256 packets of SizeSOH bytes and one byte more
LongBody == [i \in 1..(256 * SizeSOH + 1) |-> i % 256]

InitFrame ==
    /\ BaseInit
    /\ \/ \E f \in FrameFeatures, n \in 0..MaxFrameBody :
            /\ snd = SndInit("SendBytes", XModemConfig(f), << >>, Body(n))
            /\ rcv = RcvInit(XModemConfig(f))
       \/ /\ snd = SndInit("SendBytes", XModemConfig(ModemXMin), << >>, LongBody)
          /\ rcv = RcvInit(XModemConfig(ModemXMin))

\* the peer writes the byte the sender waits for
P_Ack ==
    /\ SenderWaits
    /\ transport["S"] = << >>
    /\ ~RdAvail(rd["S"])
    /\ \E b \in IF snd.pc = "waitmode"
                THEN { c \in { charNAK, charCRC } : modeAccepted(snd.cfg, c) }
                ELSE { charACK } :
          transport' = [transport EXCEPT !["S"] = << b >>]
    /\ UNCHANGED << rd, modemState, termR, snd, rcv, sink, wlog, hist, splitVars, env >>

NextFrame ==
    \/ Sender
    \/ P_Ack
    \/ PumpActive("S")

SpecFrame == InitFrame /\ [][NextFrame]_vars

\* the number of full packets of P bytes in a body, and what is left
FullPackets(body, P) == Len(body) \div P

Rest(body, P) == Len(body) % P

\* the number of Writes the sender is to make for a body: the full packets,
\* one packet for the rest when there is a rest, and the EOT
Writes(body, P) == FullPackets(body, P) + (IF Rest(body, P) > 0 THEN 1 ELSE 0) + 1

\* the k-th Write the sender is to make: a full packet with index k modulo
\* 256, or the rest padded with SUB to SizeSOH bytes when it is that short
\* and to P bytes otherwise, or EOT
Framed(body, P, k, mode) ==
    LET full == FullPackets(body, P)
        r == Rest(body, P)
    IN  IF k <= full
        THEN Frame(k % 256, SubSeq(body, (k - 1) * P + 1, k * P), mode)
        ELSE IF k = full + 1 /\ r > 0
             THEN Frame(k % 256,
                        SubSeq(body, full * P + 1, Len(body))
                            \o Fill((IF r <= SizeSOH THEN SizeSOH ELSE P) - r, charSUB),
                        mode)
             ELSE << charEOT >>

\* C17: for a body of n bytes and a packet size P (Size1K with 1k, else
\* SizeSOH) the sender writes the full packets with the indices 1, 2, ...
\* modulo 256, then one packet with the rest, padded with SUB, when there is
\* a rest, then EOT, and nothing else.  The log of Writes only grows, so
\* every Write was the last one when it was made.
C17_BodyFraming ==
    LET P == IF HasFn(snd.cfg, ModemFn1k) THEN Size1K ELSE SizeSOH
        n == Len(wlog)
    IN  /\ n <= Writes(snd.args.body, P)
        /\ n > 0 => wlog[n].bytes = Framed(snd.args.body, P, n, snd.mode)
        /\ snd.pc = "done" => n = Writes(snd.args.body, P)

\* a body with a rest longer than SizeSOH was sent in 1k packets: a full
\* packet, the rest in an STX packet, EOT
C17_Witness ==
    /\ snd.pc = "done"
    /\ HasFn(snd.cfg, ModemFn1k)
    /\ Len(snd.args.body) = Size1K + SizeSOH + 1
    /\ Len(wlog) = 3
    /\ wlog[2].bytes[1] = charSTX


(***************************************************************************)
(* SpecStream: a sending and a receiving YMODEM modem back to back, as in  *)
(* Spec, with files whose packet 0 is a whole packet and, when the modems  *)
(* are built with ModemFnG, a line that may change a byte in flight to the *)
(* receiver.                                                               *)
(***************************************************************************)
\* bytes the line may change
MaxNoise == 1

\* a file whose info fills SizeSOH bytes and whose body fits one SOH packet
FileG == [Path |-> Fill(SizeSOH - 10, 103), Length |-> 3, ModTime |-> 9, Mode |-> 420,
          Body |-> Body(3)]

StreamBatches == { << FileG >>, << FileG, FileG >> }

InitStream ==
    /\ BaseInit
    /\ \E f \in YFeatures, files \in StreamBatches :
          /\ snd = SndInit("SendList", YModemConfig(f), files, << >>)
          /\ rcv = RcvInit(YModemConfig(f))

\* the places of a packet where the line may change a byte: the index, its
\* complement, the first byte of the payload, the last byte of the trailer
NoiseAt == { 2, 3, 4, 4 + SizeSOH }

\* the line changes one byte of the SOH packet that heads the bytes in
\* flight to a receiver that streams
T_Noise ==
    /\ HasFn(rcv.cfg, ModemFnG)
    /\ env.peer < MaxNoise
    /\ transport["R"] # << >>
    /\ Head(transport["R"]) = charSOH
    /\ \E i \in NoiseAt \cap DOMAIN transport["R"] :
          transport' = [transport EXCEPT !["R"] = Changed(@, i, (@[i] + 1) % 256)]
    /\ env' = [env EXCEPT !.peer = @ + 1]
    /\ UNCHANGED << rd, modemState, termR, snd, rcv, sink, wlog, hist, splitVars >>

NextStream ==
    \/ Sender
    \/ Receiver
    \/ T_Noise
    \/ PumpActive("S")
    \/ PumpActive("R")

SpecStream == InitStream /\ [][NextStream]_vars

\* the packets the sender has written in G mode
Streamed == { i \in DOMAIN wlog : wlog[i].kind = "pack" /\ wlog[i].mode = charG }

\* C18: in G mode the sender writes a packet once and goes on without a
\* read: it is never at the read of a reply to a packet, and the Write after
\* a packet is not that packet again.  The receiver writes no reply to a
\* packet, and a packet that fails the complement, the index or the CRC
\* check makes Receive return GModeWithWrong with that payload not given to
\* the callback.
C18_GStreaming ==
    /\ snd.mode = charG => snd.pc # "reply"
    /\ \A i \in Streamed : i < Len(wlog) => wlog[i + 1].bytes # wlog[i].bytes
    /\ (rcv.pack.hdr # 0 /\ rcv.pack.mode = charG) => rcv.pack.replies = << >>
    /\ (WholeSOH /\ rcv.pack.mode = charG /\ ~PassesChecks(rcv.pack)) =>
          /\ rcv.pc \in { "end", "done" }
          /\ rcv.err = "GModeWithWrong"
          /\ ~rcv.pack.sunk

\* the sender has streamed packet 0 and a data packet, a byte of the data
\* packet was changed on the line, and Receive has returned GModeWithWrong
\* after the callback had got the file
C18_Witness ==
    /\ Cardinality(Streamed) >= 2
    /\ WholeSOH
    /\ rcv.pack.mode = charG
    /\ rcv.pack.index = 1
    /\ ~PassesChecks(rcv.pack)
    /\ rcv.pc = "done"
    /\ rcv.err = "GModeWithWrong"
    /\ Len(sink) = 1
    /\ sink[1].body = << >>


\* the bytes of modemR that are not yet read, in the order of their arrival
Unread(r) == r.buf \o r.pipe

\* the bytes that a step takes out of modemR of modem "S"
Taken == Take(Unread(rd["S"]), Len(Unread(rd["S"])) - Len(Unread(rd'["S"])))

\* a step in which a goroutine of lines 98-100 or 122-124 ends its Read
DiscardReads == Len(discards') < Len(discards)

\* a step in which a Read of the engine returns
EngineReads == rd'["S"] # rd["S"] /\ discards' = discards /\ inPump' = inPump

\* C19: modemR is a queue, so what is read from it is read once and in the
\* order of arrival; a byte that arrived while the modem was active is read
\* by the engine and not by one of the goroutines that discard, and a byte
\* that arrived while the modem was idle is never returned by a Read of the
\* engine.
C19_NoByteLostOrLeaked ==
    [][ /\ DiscardReads => \A i \in DOMAIN Taken : Taken[i] \notin ActiveBytes
        /\ EngineReads => \A i \in DOMAIN Taken : Taken[i] # chIdle ]_vars


\* the call on modem "S" has stored modemState = 1 and has not yet sent its
\* finish signal
InTransfer == snd.pc \notin { "new", "idle", "flush", "flushed", "done" }

\* C20: modemState is 1 from the store of a transfer call until that call
\* sends its finish signal: the outbound pump does not store 0 while a
\* call is in progress, whenever it handles the signal of the call before.
C20_ActiveWhileInTransfer == InTransfer => modemState["S"] = 1

=============================================================================
